---- MODULE Spec2Model ----
(***************************************************************************)
(* Model of the relay's notification handler (src/src/relay/message.py,    *)
(* src/src/relay/aws/ses.py, src/src/relay/locker_api.py).                 *)
(*                                                                         *)
(* One queue item (a "unit") is handled at a time.  The notification is    *)
(* immutable; the model fixes each of its fields when the handler first    *)
(* reads it (msg, seen), exactly as the per-access properties of Message   *)
(* re-decode the same JSON on every access.  External collaborators (blob  *)
(* store, directory API, mail provider) answer nondeterministically.       *)
(* Every call on a collaborator, and recipient resolution, is appended to  *)
(* events, so that orderings and counts are state predicates.              *)
(*                                                                         *)
(* Strings that the code takes apart (addresses, message ids) are          *)
(* sequences of tokens; all other strings are TLA+ strings.                *)
(***************************************************************************)
EXTENDS Naturals, Sequences, FiniteSets, TLC

VARIABLES pc, msg, seen, loc, response, raised, events, store, s3, nextId, units

vars == <<pc, msg, seen, loc, response, raised, events, store, s3, nextId, units>>

(***************************************************************************)
(* Bounds of the model.                                                    *)
(***************************************************************************)
MaxUnits == 2

(***************************************************************************)
(* Program constants.                                                      *)
(***************************************************************************)
RELAY_DOMAINS == <<"maily.org">>

REPLY_EMAIL == <<"replies", "@", "maily.org">>

MaxMessageBytes == 10485760

MinAliasLen == 6

ServerErrorStatus == 500

None == "None"

(***************************************************************************)
(* The universe of inputs.                                                 *)
(***************************************************************************)
\* Type of the envelope (the SNS "Type" field).
EnvelopeTypes == {"Notification", "SubscriptionConfirmation", "UnsubscribeConfirmation"}

\* Shapes of the envelope's Message: not JSON, JSON that is falsy in Python
\* (an empty object), a JSON object with keys.
BodyShapes == {"garbage", "empty", "object"}

NotificationTypes == {None, "Received", "Bounce", "Delivery"}

EventTypes == {None, "Received", "Bounce"}

\* The body's "mail": absent, present without commonHeaders, present with them.
MailShapes == {"nomail", "nocommon", "common"}

DmarcVerdicts == {None, "PASS", "FAIL"}

\* None is an absent dmarcPolicy key.
DmarcPolicies == {None, "none", "quarantine", "reject"}

AliasAddr == <<"alias01", "@", "maily.org">>

AliasNamed == <<"Ann", "<", "alias01", "@", "maily.org", ">">>

ShortAlias == <<"abc", "@", "maily.org">>

OtherAddr == <<"bob", "@", "example.com">>

\* An address of another domain whose text contains the relay domain.
LookalikeAddr == <<"mallory", "@", "maily.org", ".evil.example">>

SenderAddr == <<"Carol", "<", "carol", "@", "example.com", ">">>

\* None (the header key is absent) or a list of recipient strings.
Absent == <<<<"absent">>>>

ToLists ==
    { Absent, <<OtherAddr>>, <<AliasNamed>>, <<ShortAlias>>, <<REPLY_EMAIL>>, <<OtherAddr, AliasAddr>>,
      <<LookalikeAddr, AliasAddr>> }

CcLists == {Absent, <<OtherAddr>>, <<AliasAddr>>, <<REPLY_EMAIL>>}

RecipientLists == {<<>>, <<OtherAddr>>, <<AliasAddr>>, <<REPLY_EMAIL>>}

\* receipt.action: absent, an S3 action with bucket and key, an action of
\* another type.
ActionShapes == {"noaction", "S3", "SNS"}

BucketName == "inbound-bucket"

ObjectKey == "mail-object"

\* Inline content of the notification: absent, or present with a size.
ContentShapes == {"absent", "inline"}

\* Sizes in bytes of the raw message around the limit.
MessageSizes == {MaxMessageBytes - 1, MaxMessageBytes, MaxMessageBytes + 1}

\* Message ids known when a unit arrives: "old1" has a reply record, "old2"
\* has a record whose metadata was not encrypted under the key derived from
\* "old2", "lost" has no record.  The provider names the n-th send of the
\* handler "ses<n>".
SesHost == "email.amazonses.com"

InReplyToOf(id) == <<"<", id, "@", SesHost, ">">>

\* None: the mail has no In-Reply-To header.  A reply can also name any
\* message the provider has sent for the handler.
InReplyToValues == {<<None>>, InReplyToOf("old1"), InReplyToOf("old2"), InReplyToOf("lost")}

UnreadMsg ==
    [ type |-> None, body |-> "garbage", notificationType |-> None, eventType |-> None,
      mail |-> "nomail", receipt |-> FALSE, dmarcVerdict |-> None, dmarcPolicy |-> None,
      to |-> Absent, cc |-> Absent, recipients |-> <<>>, action |-> "noaction",
      content |-> "absent", size |-> 0, inReplyTo |-> <<None>>,
      topicArn |-> <<None>>, certUrl |-> <<None>>, signature |-> "missing", fields |-> "incomplete" ]

\* The values a field of the notification can take when it is read: the
\* value already seen, or any value of its domain on first access.
Read(f, dom) == IF f \in seen THEN {msg[f]} ELSE dom

(***************************************************************************)
(* Values of the handler.                                                  *)
(***************************************************************************)
NoAddr == <<None>>

NoKey == [kind |-> "none", of |-> ""]

NoMetadata == [message_id |-> NoAddr, from |-> NoAddr, reply_to |-> NoAddr, to |-> NoAddr]

NoResponse == [kind |-> "none", status_code |-> 0, message |-> ""]

Dict(status, message) == [kind |-> "dict", status_code |-> status, message |-> message]

\* A Python bool returned where a result dictionary is expected.
Bool(b) == [kind |-> "bool", status_code |-> 0, message |-> IF b THEN "True" ELSE "False"]

\* A call on a collaborator (or a stage of the handler) with its argument
\* and its outcome.
Event(op, arg, result) == [op |-> op, arg |-> arg, result |-> result]

InitLoc ==
    [ path |-> "none", to_address |-> NoAddr, from_address |-> NoAddr,
      user_to_address |-> NoAddr, lookup_key |-> NoKey, encryption_key |-> NoKey,
      blob |-> [key |-> NoKey, plain |-> [message_id |-> NoAddr, from |-> NoAddr, reply_to |-> NoAddr, to |-> NoAddr]], metadata |-> NoMetadata,
      reply_to_address |-> NoAddr, outbound_from |-> NoAddr, provider |-> None,
      size |-> 0 ]

(***************************************************************************)
(* Helpers on token strings.                                               *)
(***************************************************************************)
\* Python's "sub in s" on the tokens of s.
Contains(s, sub) == \E i \in 1..Len(s) : s[i] = sub

\* Position of the first occurrence of token t in s, 0 if none.
IndexOf(s, t) == IF Contains(s, t) THEN CHOOSE i \in 1..Len(s) : s[i] = t /\ \A j \in 1..(i - 1) : s[j] # t ELSE 0

\* Position of the last occurrence of token t in s, 0 if none.
LastIndexOf(s, t) == IF Contains(s, t) THEN CHOOSE i \in 1..Len(s) : s[i] = t /\ \A j \in (i + 1)..Len(s) : s[j] # t ELSE 0

\* email.utils.parseaddr(s)[1]: the bare address, display name and angle
\* brackets stripped.
parseaddr(s) == IF Contains(s, "<") /\ Contains(s, ">") /\ IndexOf(s, "<") < IndexOf(s, ">") THEN SubSeq(s, IndexOf(s, "<") + 1, IndexOf(s, ">") - 1) ELSE s

\* relay.utils.extract_email_from_string: the bare address of a header value.
extract_email_from_string(s) == parseaddr(s)

\* len(relay_address.split('@')[0]); tokens of a display name are separated
\* by one character.
RECURSIVE JoinedLen(_)
JoinedLen(s) == IF s = <<>> THEN 0 ELSE Len(Head(s)) + (IF Len(s) > 1 THEN 1 ELSE 0) + JoinedLen(Tail(s))

LocalPartLen(s) == IF Contains(s, "@") THEN JoinedLen(SubSeq(s, 1, IndexOf(s, "@") - 1)) ELSE JoinedLen(s)

(***************************************************************************)
(* Reply keys and metadata (relay.utils).                                  *)
(***************************************************************************)
\* get_message_id_bytes: the id between the last "<" and the first "@".
get_message_id_bytes(s) ==
    LET upto == IF Contains(s, "@") THEN SubSeq(s, 1, IndexOf(s, "@") - 1) ELSE s
        rest == IF Contains(upto, "<") THEN SubSeq(upto, LastIndexOf(upto, "<") + 1, Len(upto)) ELSE upto
    IN  IF rest = <<>> THEN "" ELSE rest[1]

\* derive_reply_keys: a lookup key and an encryption key, both determined
\* by the message id and distinct from each other.
derive_reply_keys(id) == <<[kind |-> "lookup", of |-> id], [kind |-> "encryption", of |-> id]>>

\* b64_lookup_key: the URL-safe rendering of a lookup key.
b64_lookup_key(k) == <<"b64", k.of>>

encrypt_reply_metadata(k, metadata) == [key |-> k, plain |-> metadata]

\* decrypt_reply_metadata succeeds only under the key that encrypted the blob.
DecryptOk(k, blob) == blob.key = k

decrypt_reply_metadata(k, blob) == blob.plain

\* A record keyed by the Message-ID of the inbound mail instead of the id of
\* the outbound message.
ReplyRecord_KeyedByInboundId(id, metadata) ==
    LET keys == derive_reply_keys(get_message_id_bytes(metadata.message_id))
    IN  [lookup |-> b64_lookup_key(keys[1]), encrypted_metadata |-> encrypt_reply_metadata(keys[2], metadata)]

\* A record written under the lookup key of a record that exists.
ReplyRecord_UnderAnOldKey(id, metadata) ==
    LET keys == derive_reply_keys("old1")
    IN  [lookup |-> b64_lookup_key(keys[1]), encrypted_metadata |-> encrypt_reply_metadata(keys[2], metadata)]

\* store_reply_record: the record for the provider's message id.
ReplyRecord(id, metadata) ==
    LET keys == derive_reply_keys(get_message_id_bytes(<<id>>))
    IN  [lookup |-> b64_lookup_key(keys[1]), encrypted_metadata |-> encrypt_reply_metadata(keys[2], metadata)]

\* The metadata of the mail that was forwarded as "old1" and as "old2".
OldMetadata ==
    [ message_id |-> <<"<", "orig", "@", "example.com", ">">>,
      from |-> <<"Dave", "<", "dave", "@", "example.com", ">">>,
      reply_to |-> NoAddr,
      to |-> <<"alias01", "@", "maily.org", ",", "eve", "@", "example.com">> ]

\* The store when a unit arrives: a record for "old1", and for "old2" a
\* record whose blob is not encrypted under the key of "old2".
InitStore ==
    { ReplyRecord("old1", OldMetadata),
      [ lookup |-> b64_lookup_key(derive_reply_keys("old2")[1]),
        encrypted_metadata |-> encrypt_reply_metadata(derive_reply_keys("other")[2], OldMetadata) ] }

NoBlob == encrypt_reply_metadata(NoKey, NoMetadata)

\* The records of the store under a lookup token.
RecordsAt(lookup) == {r \in store : r.lookup = lookup}

(***************************************************************************)
(* Decisions of the handler.                                               *)
(***************************************************************************)
\* A gate that looks at notificationType alone.
TypeGate_NotificationTypeOnly(nt, et) == nt \in {"Received", "Bounce"}

\* sns_notification: the notification passes the type gate.
TypeGate(nt, et) == ~(nt \notin {"Received", "Bounce"} /\ et # "Bounce")

\* A bounce check that looks at notificationType alone.
IsBounce_NotificationTypeOnly(nt, et) == nt = "Bounce"

\* handle_sns_message: the notification is a bounce.
IsBounce(nt, et) == nt = "Bounce" \/ et = "Bounce"

\* A rejection of every DMARC failure, whatever the policy.
DmarcRejects_AnyFailure(verdict, policy) == verdict = "FAIL"

\* handle_sns_message: DMARC failed and the policy (default "none") is reject.
DmarcRejects(verdict, policy) == verdict = "FAIL" /\ (IF policy = None THEN "none" ELSE policy) = "reject"

\* The first recipient that contains a relay domain, or None.
RECURSIVE get_recipient_with_relay_domain(_)
get_recipient_with_relay_domain(recipients) ==
    IF recipients = <<>> THEN NoAddr
    ELSE IF \E d \in 1..Len(RELAY_DOMAINS) : Contains(Head(recipients), RELAY_DOMAINS[d]) THEN Head(recipients)
    ELSE get_recipient_with_relay_domain(Tail(recipients))

\* A common header (None when its key is absent) has a relay recipient.
HeaderMatches(list) == list # Absent /\ get_recipient_with_relay_domain(list) # NoAddr

\* get_relay_recipient: "to", then "cc" of the common headers, parsed to a
\* bare address; then the receipt's recipients, as they are.
get_relay_recipient(to, cc, recipients) ==
    IF HeaderMatches(to) THEN parseaddr(get_recipient_with_relay_domain(to))
    ELSE IF HeaderMatches(cc) THEN parseaddr(get_recipient_with_relay_domain(cc))
    ELSE get_recipient_with_relay_domain(recipients)

\* get_to_address: an alias shorter than six characters is not looked up.
AliasTooShort(relay_address) == LocalPartLen(relay_address) < MinAliasLen

\* Answers of the directory API.
DestinationAnswers == {"destination", "nokey", "ConnectionError"}

PlanAnswers == {"premium", "free", "ConnectionError"}

RecordAnswers == {"json", "error"}

PostAnswers == {"ok", "ConnectionError"}

\* Answers of the mail provider to send_raw_email.
SendAnswers == {"MessageId", "ClientError"}

UserAddr == <<"user", "@", "real.example">>

\* get_relay_address_plan(...).get("is_premium") is True; a failed lookup
\* yields the empty plan.
IsPremium(plan) == plan = "premium"

\* An authorisation that refuses only accounts known not to be premium, so
\* that a failed plan lookup allows the reply.
reply_allowed_UnlessFree(from_plan, to_plan) == from_plan # "free" \/ to_plan # "free"

\* reply_allowed: the sender or the destination is premium.
reply_allowed(from_plan, to_plan) == IsPremium(from_plan) \/ IsPremium(to_plan)

\* A limit that a message of exactly the maximum size already exceeds.
TooBigFile_AtTheLimit(size) == size >= MaxMessageBytes

\* get_text_html_attachments: a message fetched from the blob store is too
\* big.
TooBigFile(size) == size > MaxMessageBytes

\* Every ClientError of the blob store reported as a missing object.
ClientErrorResponse_AlwaysNotFound(code) == Dict(404, "Email not in S3")

\* The result for a ClientError of the blob store.
ClientErrorResponse(code) ==
    IF code = "NoSuchKey" THEN Dict(404, "Email not in S3")
    ELSE Dict(503, "Cannot fetch the message content from S3")

\* A removal only after a success, not after a client-classified rejection.
RemovesBlob_OnlyOnSuccess(status) == status < 400

\* A removal decided by comparing with the threshold for equality.
RemovesBlob_UnlessExactly500(status) == status # ServerErrorStatus

\* sns_notification: the blob is removed for this result.
RemovesBlob(status) == status < ServerErrorStatus

\* Bucket and key taken from an action of any type.
get_bucket_and_key_from_s3_json_OfAnyAction(receipt, action) ==
    IF receipt /\ action # "noaction" THEN <<BucketName, ObjectKey>> ELSE <<None, None>>

\* get_bucket_and_key_from_s3_json: bucket and key of the receipt's action,
\* None for both without a receipt with an action of a type containing "S3".
get_bucket_and_key_from_s3_json(receipt, action) ==
    IF receipt /\ action = "S3" THEN <<BucketName, ObjectKey>> ELSE <<None, None>>

\* Answers of the blob store to a get.
S3GetAnswers(object) == IF object \in s3 THEN {"bytes", "InternalError"} ELSE {"NoSuchKey", "InternalError"}

\* The first address of a comma-separated header value.
FirstOfList(s) == IF Contains(s, ",") THEN SubSeq(s, 1, IndexOf(s, ",") - 1) ELSE s

\* str(n) of the provider's n-th message id.
SesId(n) == "ses" \o ToString(n)

(***************************************************************************)
(* The ways a step of the handler ends.                                    *)
(***************************************************************************)
\* handle_sns_message returns a result to sns_notification.
Return(result) == pc' = "cleanup" /\ response' = result /\ raised' = raised

\* sns_notification or sns_inbound_logic returns without cleanup.
Finish(result) == pc' = "done" /\ response' = result /\ raised' = raised

\* An exception that no handler catches leaves the handler.
Raise(exception) == pc' = "raised" /\ raised' = exception /\ response' = response

Goto(label) == pc' = label /\ response' = response /\ raised' = raised

Log(event) == events' = Append(events, event)

(***************************************************************************)
(* Initial state and arrival of a unit.                                    *)
(***************************************************************************)
Init ==
    /\ pc = "idle"
    /\ msg = UnreadMsg
    /\ seen = {}
    /\ loc = InitLoc
    /\ response = NoResponse
    /\ raised = None
    /\ events = <<>>
    /\ store = InitStore
    /\ s3 = {}
    /\ nextId = 1
    /\ units = 0

\* Message(sqs_raw): a unit arrives; its blob may or may not be in the store.
Receive ==
    /\ pc \in {"idle", "done", "raised"}
    /\ units < MaxUnits
    /\ units' = units + 1
    /\ msg' = UnreadMsg
    /\ seen' = {}
    /\ loc' = InitLoc
    /\ response' = NoResponse
    /\ raised' = None
    /\ events' = <<>>
    /\ \E present \in BOOLEAN : s3' = IF present THEN {<<BucketName, ObjectKey>>} ELSE {}
    /\ pc' = "sns_inbound_logic"
    /\ UNCHANGED <<store, nextId>>

(***************************************************************************)
(* Dispatcher.                                                             *)
(***************************************************************************)
\* A dispatcher that hands every supported type to sns_notification.
Dispatch_SupportedToNotification(t) ==
    IF t \in {"SubscriptionConfirmation", "Notification"} THEN "sns_notification" ELSE "unhandled"

\* sns_inbound_logic: where an envelope of type t goes.
Dispatch(t) ==
    IF t = "SubscriptionConfirmation" THEN "logged"
    ELSE IF t = "Notification" THEN "sns_notification"
    ELSE "unhandled"

sns_inbound_logic ==
    /\ pc = "sns_inbound_logic"
    /\ \E t \in Read("type", EnvelopeTypes) :
          /\ msg' = [msg EXCEPT !.type = t]
          /\ seen' = seen \cup {"type"}
          /\ IF Dispatch(t) = "logged" THEN Finish(Dict(200, "Logged SubscribeURL"))
             ELSE IF Dispatch(t) = "sns_notification" THEN Goto("sns_notification")
             ELSE Finish(Dict(400, "Received SNS message with type not handled in inbound log"))
    /\ UNCHANGED <<loc, events, store, s3, nextId, units>>

\* sns_notification up to the call of handle_sns_message: the body must
\* decode to a truthy value and pass the type gate.
sns_notification ==
    /\ pc = "sns_notification"
    /\ \E b \in Read("body", BodyShapes) :
          IF b # "object"
          THEN /\ msg' = [msg EXCEPT !.body = b]
               /\ seen' = seen \cup {"body"}
               /\ events' = events
               /\ Finish(Dict(400, "Received SNS notification with non-JSON body"))
          ELSE \E nt \in Read("notificationType", NotificationTypes), et \in Read("eventType", EventTypes) :
                 /\ msg' = [msg EXCEPT !.body = b, !.notificationType = nt, !.eventType = et]
                 /\ seen' = seen \cup {"body", "notificationType", "eventType"}
                 /\ IF TypeGate(nt, et)
                    THEN /\ Goto("handle_sns_message")
                         /\ Log(Event("handle_sns_message", <<>>, "called"))
                    ELSE /\ Finish(Dict(400, "Received SNS notification for unsupported Type"))
                         /\ events' = events
    /\ UNCHANGED <<loc, store, s3, nextId, units>>

\* handle_sns_message: bounces are not handled.
RejectBounce ==
    /\ pc = "handle_sns_message"
    /\ IsBounce(msg.notificationType, msg.eventType)
    /\ Return(Dict(400, "We don't handle bounce message"))
    /\ UNCHANGED <<msg, seen, loc, events, store, s3, nextId, units>>

\* handle_sns_message: the mail must carry commonHeaders.
CheckCommonHeaders ==
    /\ pc = "handle_sns_message"
    /\ ~IsBounce(msg.notificationType, msg.eventType)
    /\ \E m \in Read("mail", MailShapes) :
          /\ msg' = [msg EXCEPT !.mail = m]
          /\ seen' = seen \cup {"mail"}
          /\ IF m = "nomail" THEN Raise("AttributeError")
             ELSE IF m = "nocommon" THEN Return(Dict(400, "Received SNS notification without commonHeaders"))
             ELSE Goto("dmarc")
    /\ UNCHANGED <<loc, events, store, s3, nextId, units>>

\* handle_sns_message: the DMARC verdict of the receipt.
CheckDmarc ==
    /\ pc = "dmarc"
    /\ \E r \in Read("receipt", BOOLEAN) :
          IF ~r
          THEN /\ msg' = [msg EXCEPT !.receipt = r]
               /\ seen' = seen \cup {"receipt"}
               /\ Raise("TypeError")
          ELSE \E v \in Read("dmarcVerdict", DmarcVerdicts) :
                 IF v # "FAIL"
                 THEN /\ msg' = [msg EXCEPT !.receipt = r, !.dmarcVerdict = v]
                      /\ seen' = seen \cup {"receipt", "dmarcVerdict"}
                      /\ IF v = None THEN Raise("KeyError") ELSE Goto("get_relay_recipient")
                 ELSE \E p \in Read("dmarcPolicy", DmarcPolicies) :
                        /\ msg' = [msg EXCEPT !.receipt = r, !.dmarcVerdict = v, !.dmarcPolicy = p]
                        /\ seen' = seen \cup {"receipt", "dmarcVerdict", "dmarcPolicy"}
                        /\ IF DmarcRejects(v, p) THEN Return(Dict(400, "DMARC failure, policy is reject"))
                           ELSE Goto("get_relay_recipient")
    /\ UNCHANGED <<loc, events, store, s3, nextId, units>>

\* handle_sns_message: resolve the relay recipient and route the mail to
\* the reply path or the forward path.  The lists are read in the order the
\* resolver searches them.
GetRelayRecipient ==
    /\ pc = "get_relay_recipient"
    /\ \E to \in Read("to", ToLists) :
       \E cc \in (IF HeaderMatches(to) THEN {msg.cc} ELSE Read("cc", CcLists)) :
       \E rc \in (IF HeaderMatches(to) \/ HeaderMatches(cc) THEN {msg.recipients} ELSE Read("recipients", RecipientLists)) :
          LET to_address == get_relay_recipient(to, cc, rc)
          IN  /\ msg' = [msg EXCEPT !.to = to, !.cc = cc, !.recipients = rc]
              /\ seen' = seen \cup {"to"}
                               \cup (IF HeaderMatches(to) THEN {} ELSE {"cc"})
                               \cup (IF HeaderMatches(to) \/ HeaderMatches(cc) THEN {} ELSE {"recipients"})
              /\ Log(Event("resolve", to_address, IF to_address = NoAddr THEN "none" ELSE "found"))
              /\ IF to_address = NoAddr
                 THEN /\ Return(Dict(400, "Address does not exist"))
                      /\ loc' = loc
                 ELSE /\ loc' = [loc EXCEPT !.to_address = to_address,
                                            !.from_address = parseaddr(SenderAddr),
                                            !.path = IF to_address = REPLY_EMAIL THEN "reply" ELSE "forward"]
                      /\ Goto(IF to_address = REPLY_EMAIL THEN "handle_reply" ELSE "get_to_address")
    /\ UNCHANGED <<store, s3, nextId, units>>

(***************************************************************************)
(* Forward path.                                                           *)
(***************************************************************************)
\* A lookup that falls back on the alias itself when the request fails.
get_to_address_AliasOnFailure(relay_address, answer) ==
    IF answer = "destination" THEN UserAddr
    ELSE IF answer = "ConnectionError" THEN relay_address
    ELSE NoAddr

\* get_to_address for an alias that is looked up: the destination of the
\* directory's answer; None when the answer has none or the request fails.
get_to_address(relay_address, answer) ==
    IF answer = "destination" THEN UserAddr ELSE NoAddr

\* get_to_address and the check of its result in handle_sns_message.
GetToAddress ==
    /\ pc = "get_to_address"
    /\ IF AliasTooShort(loc.to_address)
       THEN /\ Return(Dict(400, "Destination does not exist"))
            /\ UNCHANGED <<loc, events>>
       ELSE \E answer \in DestinationAnswers :
              LET user_to_address == get_to_address(loc.to_address, answer)
              IN  /\ Log(Event("directory_destination", loc.to_address, answer))
                  /\ IF user_to_address # NoAddr
                     THEN /\ loc' = [loc EXCEPT !.user_to_address = user_to_address]
                          /\ Goto("forward_content")
                     ELSE /\ Return(Dict(400, "Destination does not exist"))
                          /\ loc' = loc
    /\ UNCHANGED <<msg, seen, store, s3, nextId, units>>

(***************************************************************************)
(* Content extraction, called by both paths.                               *)
(***************************************************************************)
\* get_text_html_attachments with the except clauses of its caller: inline
\* content if the body has it, else the blob named by the receipt's action.
GetTextHtmlAttachments ==
    /\ pc \in {"forward_content", "reply_content"}
    /\ \E c \in Read("content", ContentShapes) :
          IF c = "inline"
          THEN \E size \in Read("size", MessageSizes) :
                 /\ msg' = [msg EXCEPT !.content = c, !.size = size]
                 /\ seen' = seen \cup {"content", "size"}
                 /\ loc' = [loc EXCEPT !.size = size]
                 /\ events' = events
                 /\ Goto(IF pc = "forward_content" THEN "forward_send" ELSE "reply_send")
          ELSE \E a \in Read("action", ActionShapes) :
                 LET object == get_bucket_and_key_from_s3_json(msg.receipt, a)
                 IN  /\ \E answer \in S3GetAnswers(object) :
                           /\ Log(Event("s3_get", object, answer))
                           /\ IF answer # "bytes"
                              THEN /\ msg' = [msg EXCEPT !.content = c, !.action = a]
                                   /\ seen' = seen \cup {"content", "action"}
                                   /\ loc' = loc
                                   /\ Return(ClientErrorResponse(answer))
                              ELSE \E size \in Read("size", MessageSizes) :
                                     /\ msg' = [msg EXCEPT !.content = c, !.action = a, !.size = size]
                                     /\ seen' = seen \cup {"content", "action", "size"}
                                     /\ loc' = [loc EXCEPT !.size = size]
                                     /\ IF TooBigFile(size)
                                        THEN Return(Dict(400, "Attachments are larger than AWS allows"))
                                        ELSE Goto(IF pc = "forward_content" THEN "forward_send" ELSE "reply_send")
    /\ UNCHANGED <<store, s3, nextId, units>>

(***************************************************************************)
(* Outbound send.                                                          *)
(***************************************************************************)
\* The value of a header that lists addresses.
RECURSIVE JoinAddrs(_)
JoinAddrs(list) ==
    IF list = <<>> THEN <<>>
    ELSE IF Len(list) = 1 THEN Head(list)
    ELSE Head(list) \o <<",">> \o JoinAddrs(Tail(list))

\* A metadata that keeps the sender where the recipients belong.
InboundMetadata_FromAsTo ==
    [ message_id |-> <<"<", "inbound", "@", "example.com", ">">>,
      from |-> SenderAddr,
      reply_to |-> NoAddr,
      to |-> SenderAddr ]

\* store_reply_record: the metadata kept from the raw headers of the mail.
InboundMetadata ==
    [ message_id |-> <<"<", "inbound", "@", "example.com", ">">>,
      from |-> SenderAddr,
      reply_to |-> NoAddr,
      to |-> IF msg.to # Absent /\ msg.to # <<>> THEN JoinAddrs(msg.to) ELSE NoAddr ]

\* ses_relay_email reports the outcome of its send as a result with a
\* status.
RelayResult(sent) == IF sent THEN Dict(200, "Sent email to final recipient") ELSE Dict(503, "SES client error")

\* handle_reply returns what ses_send_raw_email returns.
ReplyResult(sent) == Bool(sent)

CallerResult(caller, sent) == IF caller = "ses_relay_email" THEN RelayResult(sent) ELSE ReplyResult(sent)

\* ses_send_raw_email(from, to, subject, body, attachments, mail,
\* reply_address), mail and reply_address given by the Python type of the
\* argument ("dict", "str", "None").  The message is serialised before the
\* provider is called, which fails for a Reply-To header that is a dict;
\* only a ClientError is caught.  CallerResult(caller, b) is what the
\* caller makes of the returned bool.
ses_send_raw_email(mail, reply_address, caller) ==
    \E answer \in SendAnswers :
      /\ loc' = [loc EXCEPT !.provider = answer]
      /\ IF reply_address = "dict"
         THEN /\ Raise("AttributeError")
              /\ UNCHANGED <<events, store, nextId>>
         ELSE IF answer = "ClientError"
         THEN /\ Log(Event("ses_send", <<>>, answer))
              /\ Return(CallerResult(caller, FALSE))
              /\ UNCHANGED <<store, nextId>>
         ELSE IF mail # "dict"
         THEN /\ Log(Event("ses_send", <<SesId(nextId)>>, answer))
              /\ nextId' = nextId + 1
              /\ Raise("TypeError")
              /\ UNCHANGED store
         ELSE \E post \in PostAnswers :
                /\ events' = events \o <<Event("ses_send", <<SesId(nextId)>>, answer), Event("reply_create", <<SesId(nextId)>>, post)>>
                /\ nextId' = nextId + 1
                /\ IF post = "ok"
                   THEN /\ store' = store \cup {ReplyRecord(SesId(nextId), InboundMetadata)}
                        /\ Return(CallerResult(caller, TRUE))
                   ELSE /\ store' = store
                        /\ Raise("ConnectionError")

\* handle_sns_message, forward path: ses_relay_email(from, to, subject,
\* body, attachments, self.sns_mail).
ForwardSend ==
    /\ pc = "forward_send"
    /\ ses_send_raw_email("dict", "str", "ses_relay_email")
    /\ UNCHANGED <<msg, seen, s3, units>>

(***************************************************************************)
(* Reply path.                                                             *)
(***************************************************************************)
\* A scan of the headers that never misses the header.
InReplyToNotFound_Never(in_reply_to) == FALSE

\* get_keys_from_headers raises InReplyToNotFound: no header of the mail is
\* named In-Reply-To.
InReplyToNotFound(in_reply_to) == in_reply_to = <<None>>

\* handle_reply with get_keys_from_headers: the keys of the In-Reply-To
\* header.
GetKeysFromHeaders ==
    /\ pc = "handle_reply"
    /\ \E v \in Read("inReplyTo", InReplyToValues \cup {InReplyToOf(SesId(n)) : n \in 1..(nextId - 1)}) :
          /\ msg' = [msg EXCEPT !.inReplyTo = v]
          /\ seen' = seen \cup {"inReplyTo"}
          /\ IF InReplyToNotFound(v)
             THEN /\ Return(Dict(400, "No In-Reply-To header"))
                  /\ loc' = loc
             ELSE LET keys == derive_reply_keys(get_message_id_bytes(v))
                  IN  /\ loc' = [loc EXCEPT !.lookup_key = keys[1], !.encryption_key = keys[2]]
                      /\ Goto("reply_record")
    /\ UNCHANGED <<events, store, s3, nextId, units>>

\* A read that answers from the store although the request failed.
get_reply_record_from_lookup_key_IgnoresFailure(answer, lookup) ==
    IF RecordsAt(lookup) # {} THEN {r.encrypted_metadata : r \in RecordsAt(lookup)} ELSE {NoBlob}

\* get_reply_record_from_lookup_key: the encrypted metadata of a record the
\* directory returns for the lookup token; None when the read fails or the
\* answer has no encrypted metadata.
get_reply_record_from_lookup_key(answer, lookup) ==
    IF answer = "json" /\ RecordsAt(lookup) # {} THEN {r.encrypted_metadata : r \in RecordsAt(lookup)} ELSE {NoBlob}

\* handle_reply: read the reply record; without one the reply is rejected.
GetReplyRecord ==
    /\ pc = "reply_record"
    /\ \E answer \in RecordAnswers :
          LET lookup == b64_lookup_key(loc.lookup_key)
          IN  /\ Log(Event("reply_read", lookup, IF answer = "json" /\ RecordsAt(lookup) # {} THEN "record" ELSE "none"))
              /\ \E reply_record \in get_reply_record_from_lookup_key(answer, lookup) :
                    IF reply_record = NoBlob
                    THEN /\ Return(Dict(400, "Unknown or stale In-Reply-To header"))
                         /\ loc' = loc
                    ELSE /\ loc' = [loc EXCEPT !.blob = reply_record]
                         /\ Goto("decrypt")
    /\ UNCHANGED <<msg, seen, store, s3, nextId, units>>

\* handle_reply: decrypt the metadata and take the reply's destination and
\* sender from it.
DecryptMetadata ==
    /\ pc = "decrypt"
    /\ IF ~DecryptOk(loc.encryption_key, loc.blob)
       THEN /\ Raise("DecryptionError")
            /\ loc' = loc
       ELSE LET metadata == decrypt_reply_metadata(loc.encryption_key, loc.blob)
                to_address == IF metadata.reply_to # NoAddr THEN metadata.reply_to ELSE metadata.from
            IN  IF metadata.to = NoAddr
                THEN /\ Raise("AttributeError")
                     /\ loc' = loc
                ELSE /\ loc' = [loc EXCEPT !.metadata = metadata,
                                           !.reply_to_address = extract_email_from_string(to_address),
                                           !.outbound_from = FirstOfList(metadata.to)]
                     /\ Goto("reply_allowed")
    /\ UNCHANGED <<msg, seen, events, store, s3, nextId, units>>

\* handle_reply with reply_allowed: the plan of the sender, then, unless it
\* is premium, the plan of the destination.
ReplyAllowed ==
    /\ pc = "reply_allowed"
    /\ \E from_plan \in PlanAnswers :
       \E to_plan \in (IF IsPremium(from_plan) THEN {"premium"} ELSE PlanAnswers) :
          /\ events' = events \o <<Event("directory_plan", loc.from_address, from_plan)>>
                              \o (IF IsPremium(from_plan) THEN <<>> ELSE <<Event("directory_plan", loc.reply_to_address, to_plan)>>)
          /\ IF reply_allowed(from_plan, to_plan) THEN Goto("reply_content")
             ELSE Return(Dict(403, "Relay replies require a premium account"))
    /\ UNCHANGED <<msg, seen, loc, store, s3, nextId, units>>

\* handle_reply: ses_send_raw_email(from, to, subject, body, attachments,
\* None, self.sns_mail).
ReplySend ==
    /\ pc = "reply_send"
    /\ ses_send_raw_email("None", "dict", "handle_reply")
    /\ UNCHANGED <<msg, seen, s3, units>>

(***************************************************************************)
(* Terminal cleanup.                                                       *)
(***************************************************************************)
\* sns_notification after handle_sns_message: the blob is removed unless
\* the result is a server error; a result without a status raises.
Cleanup ==
    /\ pc = "cleanup"
    /\ \E r \in Read("receipt", BOOLEAN) :
       \E a \in (IF r THEN Read("action", ActionShapes) ELSE {msg.action}) :
          LET object == get_bucket_and_key_from_s3_json(r, a)
          IN  /\ msg' = [msg EXCEPT !.receipt = r, !.action = a]
              /\ seen' = seen \cup {"receipt"} \cup (IF r THEN {"action"} ELSE {})
              /\ IF response.kind # "dict"
                 THEN /\ Raise("TypeError")
                      /\ UNCHANGED <<events, s3>>
                 ELSE IF RemovesBlob(response.status_code)
                 THEN /\ Log(Event("s3_delete", object, "deleted"))
                      /\ s3' = s3 \ {object}
                      /\ Finish(response)
                 ELSE /\ Finish(response)
                      /\ UNCHANGED <<events, s3>>
    /\ UNCHANGED <<loc, store, nextId, units>>

Next ==
    \/ Receive
    \/ sns_inbound_logic
    \/ sns_notification
    \/ RejectBounce
    \/ CheckCommonHeaders
    \/ CheckDmarc
    \/ GetRelayRecipient
    \/ GetToAddress
    \/ GetTextHtmlAttachments
    \/ ForwardSend
    \/ GetKeysFromHeaders
    \/ GetReplyRecord
    \/ DecryptMetadata
    \/ ReplyAllowed
    \/ ReplySend
    \/ Cleanup

Spec == Init /\ [][Next]_vars

(***************************************************************************)
(* Redelivery by the queue.  The queue is at-least-once: a unit whose      *)
(* handling did not complete is delivered again and handled from the       *)
(* start.  The redeliveries followed here are those of a unit whose        *)
(* outbound send the provider had accepted.  The log of the unit's events  *)
(* goes on across its deliveries.                                          *)
(***************************************************************************)
\* The provider accepted a send of the unit.
SendAccepted == \E i \in 1..Len(events) : events[i].op = "ses_send" /\ events[i].result = "MessageId"

\* Handling did not complete: an exception left the handler, or the worker
\* was lost between handle_sns_message and the cleanup.
Unhandled == pc \in {"raised", "cleanup"}

\* The same queue item is handled again: the notification is the same, the
\* handler starts afresh.  A redelivery counts as a delivery of MaxUnits.
Redeliver ==
    /\ Unhandled
    /\ SendAccepted
    /\ units < MaxUnits
    /\ units' = units + 1
    /\ Log(Event("redelivered", <<>>, pc))
    /\ loc' = InitLoc
    /\ response' = NoResponse
    /\ raised' = None
    /\ pc' = "sns_inbound_logic"
    /\ UNCHANGED <<msg, seen, store, s3, nextId>>

RedeliveryNext ==
    \/ Next
    \/ Redeliver

RedeliverySpec == Init /\ [][RedeliveryNext]_vars

(***************************************************************************)
(* Checks of the envelope: validate_sns_header and verify_from_sns.  Both  *)
(* are methods of Message that its caller applies to a unit before the     *)
(* dispatcher; here each is applied to every envelope.                     *)
(***************************************************************************)
\* The topic and the region of the environment (os.getenv gives strings).
AWS_SNS_TOPIC == <<"arn:aws:sns:eu-west-1:123:", "relay-inbound">>

AWS_REGION == "eu-west-1"

SUPPORTED_SNS_TYPES == {"SubscriptionConfirmation", "Notification"}

\* A key that the envelope does not have, and a key whose value is null.
MissingKey == <<"KeyError">>

NullValue == <<None>>

\* TopicArn of the envelope: missing, null, empty, the configured topic, a
\* part of the configured topic, another topic.
TopicArns ==
    { MissingKey, NullValue, <<>>, AWS_SNS_TOPIC, <<"relay-inbound">>,
      <<"arn:aws:sns:eu-west-1:123:", "other-topic">> }

\* Type of the envelope as sns_message_type reads it: None when the key is
\* missing, or a string, possibly empty.
HeaderTypes == EnvelopeTypes \cup {None, ""}

\* Python's "sub in s" on strings: sub occurs in s as a run of tokens.
IsSubstring(sub, s) == Len(sub) <= Len(s) /\ \E i \in 0..(Len(s) - Len(sub)) : SubSeq(s, i + 1, i + Len(sub)) = sub

\* Python's "not s" for a string or None.
Falsy(s) == s = NullValue \/ s = <<>>

\* validate_sns_header: the error it detects, None if it detects none.
HeaderError(topic_arn, type) ==
    IF Falsy(topic_arn) THEN "Received SNS request without Topic ARN."
    ELSE IF ~IsSubstring(topic_arn, AWS_SNS_TOPIC) THEN "Received SNS message for wrong topic."
    ELSE IF type = None \/ type = "" THEN "Received SNS request without Message Type."
    ELSE IF type \notin SUPPORTED_SNS_TYPES THEN "Received SNS message for unsupported Type."
    ELSE None

\* The dictionary of error details, and the None of a method that returns
\* nothing.
ErrorDict(error) == [kind |-> "error", status_code |-> 0, message |-> error]

ReturnedNone == [kind |-> "None", status_code |-> 0, message |-> ""]

\* grab_keyfile: the origin every certificate URL must start with.
CertOrigin == <<"https://sns.", AWS_REGION, ".amazonaws.com/">>

\* A test that accepts the origin anywhere in the URL.
StartsWith_Anywhere(s, prefix) == IsSubstring(prefix, s)

\* str.startswith.
StartsWith(s, prefix) == Len(prefix) <= Len(s) /\ SubSeq(s, 1, Len(prefix)) = prefix

\* SigningCertURL of the envelope: missing, at the origin, on another host,
\* on another host with the origin in its query, at the origin over http.
CertUrls ==
    { MissingKey, CertOrigin \o <<"cert.pem">>, <<"https://evil.example/", "cert.pem">>,
      <<"https://evil.example/?u=">> \o CertOrigin \o <<"cert.pem">>,
      <<"http://sns.", AWS_REGION, ".amazonaws.com/", "cert.pem">> }

\* What urlopen(cert_url).read() gives: a file with one certificate, a file
\* with one PEM block that is not a certificate, a file with no or with two
\* certificates; or urlopen raises.
FetchAnswers == {"one_certificate", "garbage_certificate", "no_certificate", "two_certificates", "URLError"}

\* Signature of the envelope: missing, not base64, base64.
Signatures == {"missing", "malformed", "wellformed"}

\* The envelope has every field that its hash format names, or lacks one.
FieldShapes == {"complete", "incomplete"}

\* crypto.verify returns, or raises OpenSSL.crypto.Error for a signature
\* that does not match.
VerifyAnswers == {"verified", "crypto.Error"}

\* Message(sqs_raw) for the envelope checks: a unit arrives with its
\* envelope.
ReceiveEnvelope ==
    /\ pc \in {"idle", "validated", "verified", "raised"}
    /\ units < MaxUnits
    /\ units' = units + 1
    /\ \E topic \in TopicArns, type \in HeaderTypes, url \in CertUrls, sig \in Signatures, fields \in FieldShapes :
          msg' = [UnreadMsg EXCEPT !.topicArn = topic, !.type = type, !.certUrl = url, !.signature = sig, !.fields = fields]
    /\ seen' = {"topicArn", "type", "certUrl", "signature", "fields"}
    /\ loc' = InitLoc
    /\ response' = NoResponse
    /\ raised' = None
    /\ events' = <<>>
    /\ pc' = "envelope"
    /\ UNCHANGED <<store, s3, nextId>>

\* A method of the envelope checks returns a value or raises.
Returned(label, value) == pc' = label /\ response' = value /\ raised' = raised

\* validate_sns_header: the topic is read with a subscript, the type with
\* get.
validate_sns_header ==
    /\ pc = "envelope"
    /\ IF msg.topicArn = MissingKey
       THEN /\ Raise("KeyError")
            /\ Log(Event("validate_sns_header", msg.topicArn, "raised"))
       ELSE LET error == HeaderError(msg.topicArn, msg.type)
            IN  /\ Returned("validated", IF error # None THEN ErrorDict(error) ELSE ReturnedNone)
                /\ Log(Event("validate_sns_header", msg.topicArn, IF error # None THEN "error" ELSE "None"))
    /\ UNCHANGED <<msg, seen, loc, store, s3, nextId, units>>

\* verify_from_sns with grab_keyfile: only the OpenSSL.crypto.Error of
\* crypto.verify is caught.
verify_from_sns ==
    /\ pc = "envelope"
    /\ IF msg.certUrl = MissingKey
       THEN /\ Raise("KeyError")
            /\ Log(Event("verify_from_sns", msg.certUrl, "raised"))
       ELSE IF ~StartsWith(msg.certUrl, CertOrigin)
       THEN /\ Returned("verified", Bool(FALSE))
            /\ Log(Event("verify_from_sns", msg.certUrl, "False"))
       ELSE \E pem_file \in FetchAnswers :
              LET urlopen == Event("urlopen", msg.certUrl, pem_file)
              IN  IF pem_file = "URLError"
                  THEN /\ Raise("URLError")
                       /\ events' = events \o <<urlopen, Event("verify_from_sns", msg.certUrl, "raised")>>
                  ELSE IF pem_file \in {"no_certificate", "two_certificates"}
                  THEN /\ Returned("verified", Bool(FALSE))
                       /\ events' = events \o <<urlopen, Event("verify_from_sns", msg.certUrl, "False")>>
                  ELSE IF pem_file = "garbage_certificate" \/ msg.signature # "wellformed" \/ msg.fields # "complete"
                  THEN /\ Raise(IF pem_file = "garbage_certificate" THEN "crypto.Error"
                                ELSE IF msg.signature = "missing" THEN "KeyError"
                                ELSE IF msg.signature = "malformed" THEN "binascii.Error"
                                ELSE "KeyError")
                       /\ events' = events \o <<urlopen, Event("verify_from_sns", msg.certUrl, "raised")>>
                  ELSE \E answer \in VerifyAnswers :
                         /\ Returned("verified", Bool(answer = "verified"))
                         /\ events' = events \o <<urlopen, Event("verify_from_sns", msg.certUrl, IF answer = "verified" THEN "True" ELSE "False")>>
    /\ UNCHANGED <<msg, seen, loc, store, s3, nextId, units>>

EnvelopeNext ==
    \/ ReceiveEnvelope
    \/ validate_sns_header
    \/ verify_from_sns

EnvelopeSpec == Init /\ [][EnvelopeNext]_vars

(***************************************************************************)
(* Vocabulary of the properties.                                           *)
(***************************************************************************)
EventsOf(op) == {i \in 1..Len(events) : events[i].op = op}

Count(op) == Cardinality(EventsOf(op))

\* Handling of the unit is over: a result was returned or an exception left
\* the handler.
Over == pc \in {"done", "raised"}

\* handle_sns_message was called for the unit.
ReachedHandler == Count("handle_sns_message") > 0

TheObject == <<BucketName, ObjectKey>>

LastEvent == events[Len(events)]

(***************************************************************************)
(* Properties.                                                             *)
(***************************************************************************)
\* C1: when handle_sns_message has returned a result, sns_notification
\* issues a delete of the blob named by the receipt if and only if the
\* result's status is below 500; for a status of 500 or more (and for a
\* result without a status) nothing is deleted and the blob store is left
\* as it was.
C1_DeleteIffBelow500 ==
    [][ /\ (pc = "cleanup" /\ pc' = "done") =>
             /\ response' = response
             /\ (response.status_code < 500) =>
                    /\ events' = Append(events, Event("s3_delete", get_bucket_and_key_from_s3_json(msg'.receipt, msg'.action), "deleted"))
                    /\ s3' = s3 \ {get_bucket_and_key_from_s3_json(msg'.receipt, msg'.action)}
             /\ (response.status_code >= 500) => (events' = events /\ s3' = s3)
        /\ (pc = "cleanup" /\ pc' = "raised") => (events' = events /\ s3' = s3)
        /\ (pc # "cleanup" /\ pc' # "sns_inbound_logic") => (Count("s3_delete")' = Count("s3_delete") /\ s3' = s3)
      ]_vars

\* A unit whose mail was fetched from the blob store and relayed: the result
\* is 200 and the delete of its blob was issued last.
C1_Witness ==
    /\ pc = "done"
    /\ ReachedHandler
    /\ response.status_code = 200
    /\ \E i \in EventsOf("s3_get") : events[i].arg = TheObject /\ events[i].result = "bytes"
    /\ LastEvent = Event("s3_delete", TheObject, "deleted")
    /\ TheObject \notin s3

\* The rejections of a Notification that come with a result.
GateRejections ==
    { "Received SNS notification with non-JSON body",
      "Received SNS notification for unsupported Type" }

HandlerRejections ==
    { "We don't handle bounce message",
      "Received SNS notification without commonHeaders",
      "DMARC failure, policy is reject",
      "No In-Reply-To header",
      "Relay replies require a premium account",
      "Attachments are larger than AWS allows" }

\* C2 as stated: every client-classified rejection of a Notification (the
\* nine listed, a failed metadata decryption among them) ends with the
\* delete of the blob issued and no outbound send.
C2_Original ==
    (Over /\ (response.message \in GateRejections \cup HandlerRejections \/ raised = "DecryptionError"))
        => (Count("s3_delete") = 1 /\ Count("ses_send") = 0)

\* C2 as amended: a rejection returned by handle_sns_message (bounce,
\* missing commonHeaders, DMARC reject, missing In-Reply-To, non-premium
\* reply, oversize content) ends with exactly one delete, issued last, for
\* the bucket and key of the receipt, and no send; a non-JSON body and an
\* unsupported type are rejected before the handler with no delete and no
\* send; a failed metadata decryption raises out of the handler with no
\* delete and no send.
C2_RejectionsAndCleanup ==
    /\ (pc = "done" /\ response.message \in HandlerRejections) =>
           /\ response.status_code \in 400..499
           /\ Count("s3_delete") = 1
           /\ LastEvent = Event("s3_delete", IF msg.receipt /\ msg.action = "S3" THEN TheObject ELSE <<None, None>>, "deleted")
           /\ (msg.receipt /\ msg.action = "S3") => TheObject \notin s3
           /\ Count("ses_send") = 0
    /\ (pc = "done" /\ response.message \in GateRejections) =>
           /\ response.status_code = 400
           /\ events = <<>>
    /\ (raised = "DecryptionError") =>
           /\ pc = "raised"
           /\ response = NoResponse
           /\ Count("s3_delete") = 0
           /\ Count("ses_send") = 0

\* A non-premium reply of a unit whose receipt names its blob: rejected with
\* 403, and the blob is gone.
C2_Witness ==
    /\ pc = "done"
    /\ response.message = "Relay replies require a premium account"
    /\ msg.action = "S3"
    /\ LastEvent = Event("s3_delete", TheObject, "deleted")

\* C3: when the fetch of the blob fails with an error other than "object
\* not found", or the provider rejects the send with a ClientError, handling
\* ends with a result of status 500 or more and no delete of the blob is
\* issued.
C3_ServerErrorsKeepBlob ==
    (Over /\ ( \/ \E i \in EventsOf("s3_get") : events[i].result \notin {"bytes", "NoSuchKey"}
               \/ \E i \in EventsOf("ses_send") : events[i].result = "ClientError" ))
        => /\ pc = "done"
           /\ response.kind = "dict"
           /\ response.status_code >= 500
           /\ Count("s3_delete") = 0

\* A fetch that failed for a blob that is in the store: 503, the blob is
\* still there.
C3_Witness ==
    /\ pc = "done"
    /\ \E i \in EventsOf("s3_get") : events[i].arg = TheObject /\ events[i].result = "InternalError"
    /\ response.status_code = 503
    /\ TheObject \in s3

\* The lookup token under which a reply to the outbound message id finds
\* its record.
LookupOf(id) == b64_lookup_key(derive_reply_keys(id)[1])

\* The forward path has run its send for a unit whose alias the directory
\* resolved and whose content was extracted.
ForwardSent ==
    /\ Over
    /\ msg.notificationType = "Received"
    /\ loc.path = "forward"
    /\ loc.to_address # REPLY_EMAIL
    /\ \E i \in EventsOf("directory_destination") : events[i].result = "destination"
    /\ loc.provider # None

\* C4 as stated: for a Received notification whose relay recipient is not
\* the reply endpoint and resolves to a destination, with extractable
\* content, the forward path issues exactly one send and then exactly one
\* creation of a reply record, keyed by the id of the outbound message.
C4_Original ==
    ForwardSent =>
        /\ Count("ses_send") = 1
        /\ Count("reply_create") = 1
        /\ \E i \in EventsOf("ses_send") : events[i + 1].op = "reply_create" /\ events[i + 1].arg = events[i].arg

\* C4 as amended: in that case the forward path issues exactly one send;
\* when the provider accepts it, exactly one creation of a reply record
\* follows it at once, keyed by the id of the outbound message (and the
\* record is in the store when the directory accepts it); when the send
\* fails with a provider error no record is created.
C4_OneSendThenOneRecord ==
    ForwardSent =>
        /\ Count("ses_send") = 1
        /\ \A i \in EventsOf("ses_send") :
              IF events[i].result = "MessageId"
              THEN /\ Count("reply_create") = 1
                   /\ i < Len(events)
                   /\ events[i + 1].op = "reply_create"
                   /\ events[i + 1].arg = events[i].arg
                   /\ events[i + 1].result = "ok" => RecordsAt(LookupOf(events[i].arg[1])) # {}
                   /\ RecordsAt(LookupOf(events[i].arg[1])) \subseteq {ReplyRecord(events[i].arg[1], InboundMetadata)}
              ELSE Count("reply_create") = 0

\* A forwarded unit: one send, one record under the id of the send, 200.
C4_Witness ==
    /\ ForwardSent
    /\ pc = "done"
    /\ response.status_code = 200
    /\ Count("ses_send") = 1
    /\ Count("reply_create") = 1
    /\ RecordsAt(LookupOf(SesId(1))) # {}

\* The reply path has run its send with all its gates passed and the
\* provider accepting sends.
ReplyAccepted ==
    /\ Over
    /\ loc.path = "reply"
    /\ loc.provider = "MessageId"

\* C5: in the reply path, whenever the provider accepts the send, a new
\* reply record keyed by the id of the outbound message is created, so that
\* a later reply to that message finds a record.
C5_ReplySendCreatesRecord ==
    ReplyAccepted =>
        \E i \in EventsOf("ses_send") :
            /\ events[i].result = "MessageId"
            /\ \E j \in EventsOf("reply_create") : events[j].arg = events[i].arg
            /\ RecordsAt(LookupOf(events[i].arg[1])) # {}

\* C6: a reply whose lookup key has no stored record, or whose record read
\* fails, is rejected with a status below 500, and no send and no record
\* creation is issued.
C6_UnknownRecordRejected ==
    (\E i \in EventsOf("reply_read") : events[i].result = "none") =>
        /\ pc \in {"cleanup", "done"}
        /\ response = Dict(400, "Unknown or stale In-Reply-To header")
        /\ response.status_code < 500
        /\ Count("ses_send") = 0
        /\ Count("reply_create") = 0

\* A reply to a message id that has no record, rejected.
C6_Witness ==
    /\ pc = "done"
    /\ loc.path = "reply"
    /\ msg.inReplyTo = InReplyToOf("lost")
    /\ \E i \in EventsOf("reply_read") : events[i].arg = LookupOf("lost") /\ events[i].result = "none"
    /\ response.status_code = 400

\* The directory reported an account of the reply as premium.
PremiumReported == \E i \in EventsOf("directory_plan") : events[i].result = "premium"

\* C7: the reply path goes on to content extraction and to the send only
\* if the directory reported the sender's or the destination's account as
\* premium; when neither is premium (a failed plan lookup counts as not
\* premium) the reply is rejected with the policy error 403 and no send is
\* issued.
C7_ReplyNeedsPremium ==
    /\ (loc.path = "reply" /\ (pc \in {"reply_content", "reply_send"} \/ Count("s3_get") > 0 \/ Count("ses_send") > 0 \/ loc.provider # None))
           => PremiumReported
    /\ (Count("directory_plan") > 0 /\ ~PremiumReported) =>
           /\ Count("directory_plan") = 2
           /\ events[Len(events) - (IF pc = "done" THEN 2 ELSE 1)].arg = loc.from_address
           /\ events[Len(events) - (IF pc = "done" THEN 1 ELSE 0)].arg = loc.reply_to_address
           /\ pc \in {"cleanup", "done"}
           /\ response = Dict(403, "Relay replies require a premium account")
           /\ Count("s3_get") = 0
           /\ Count("ses_send") = 0

\* A reply for which both plan lookups failed: rejected with 403, no send.
C7_Witness ==
    /\ pc = "done"
    /\ loc.path = "reply"
    /\ Count("directory_plan") = 2
    /\ \A i \in EventsOf("directory_plan") : events[i].result = "ConnectionError"
    /\ response.status_code = 403
    /\ Count("ses_send") = 0

\* C8: a Notification whose notificationType or eventType is "Bounce" never
\* reaches the forward path or the reply path: no recipient resolution, no
\* directory call, no content fetch and no send happens for it, and it ends
\* rejected as a bounce.
C8_BounceNeverRelayed ==
    ("notificationType" \in seen /\ (msg.notificationType = "Bounce" \/ msg.eventType = "Bounce")) =>
        /\ loc.path = "none"
        /\ pc \in {"handle_sns_message", "cleanup", "done"}
        /\ Count("resolve") = 0
        /\ Count("directory_destination") = 0
        /\ Count("directory_plan") = 0
        /\ Count("reply_read") = 0
        /\ Count("reply_create") = 0
        /\ Count("s3_get") = 0
        /\ Count("ses_send") = 0
        /\ (pc # "handle_sns_message") => response = Dict(400, "We don't handle bounce message")

\* A bounce told by its eventType, with notificationType "Received".
C8_Witness ==
    /\ pc = "done"
    /\ msg.notificationType = "Received"
    /\ msg.eventType = "Bounce"
    /\ response.message = "We don't handle bounce message"

\* C9: with DMARC verdict FAIL and policy "reject" the notification is
\* rejected before recipient resolution and no send is issued; with verdict
\* FAIL and any other policy, or none, handling continues to recipient
\* resolution.
C9_DmarcReject ==
    /\ ({"dmarcVerdict", "dmarcPolicy"} \subseteq seen /\ msg.dmarcVerdict = "FAIL" /\ msg.dmarcPolicy = "reject") =>
           /\ pc \in {"cleanup", "done"}
           /\ response = Dict(400, "DMARC failure, policy is reject")
           /\ Count("resolve") = 0
           /\ Count("ses_send") = 0
    /\ ({"dmarcVerdict", "dmarcPolicy"} \subseteq seen /\ msg.dmarcVerdict = "FAIL" /\ msg.dmarcPolicy # "reject") =>
           \/ pc = "get_relay_recipient"
           \/ Count("resolve") = 1

\* A DMARC failure under policy reject, rejected with nothing resolved.
C9_Witness ==
    /\ pc = "done"
    /\ msg.dmarcVerdict = "FAIL"
    /\ msg.dmarcPolicy = "reject"
    /\ response.message = "DMARC failure, policy is reject"
    /\ Count("resolve") = 0

\* A DMARC failure without a policy in the receipt, resolved and relayed.
C9_WitnessNoPolicy ==
    /\ msg.dmarcVerdict = "FAIL"
    /\ "dmarcPolicy" \in seen
    /\ msg.dmarcPolicy = None
    /\ Count("resolve") = 1
    /\ Count("ses_send") = 1

\* The notification types the gate accepts.
Supported == {"Received", "Bounce"}

\* C10 as stated: a Notification with a decodable body passes the type gate
\* exactly when its notificationType or its eventType is in {Received,
\* Bounce}.
C10_Original ==
    ("notificationType" \in seen) =>
        (ReachedHandler <=> (msg.notificationType \in Supported \/ msg.eventType \in Supported))

\* C10 as amended: a Notification whose body decodes to a non-empty object
\* passes the type gate exactly when its notificationType is in {Received,
\* Bounce} or its eventType is "Bounce"; every other body, one with
\* eventType "Received" and no notificationType among them, is rejected as
\* an unsupported type with status 400 and nothing else done.
C10_TypeGate ==
    ("notificationType" \in seen) =>
        /\ ReachedHandler <=> (msg.notificationType \in Supported \/ msg.eventType = "Bounce")
        /\ ~ReachedHandler =>
              /\ pc = "done"
              /\ response = Dict(400, "Received SNS notification for unsupported Type")
              /\ events = <<>>

\* A body with eventType "Received" and no notificationType, rejected.
C10_Witness ==
    /\ pc = "done"
    /\ msg.body = "object"
    /\ msg.notificationType = None
    /\ msg.eventType = "Received"
    /\ response = Dict(400, "Received SNS notification for unsupported Type")

\* The errors of validate_sns_header about the topic, and about the type.
TopicErrors == {"Received SNS request without Topic ARN.", "Received SNS message for wrong topic."}

TypeErrors == {"Received SNS request without Message Type.", "Received SNS message for unsupported Type."}

\* validate_sns_header has returned for the unit.
Validated == pc = "validated"

\* C11: header validation returns an error exactly when the topic ARN is
\* empty or is not the configured topic, or the message type is empty or is
\* not SubscriptionConfirmation or Notification; a bad topic is reported
\* whatever the type is (the topic is checked first), and every other
\* envelope yields no error.
C11_RejectsExactlyBadTopicOrType ==
    Validated =>
        LET badTopic == msg.topicArn \in {NullValue, <<>>} \/ msg.topicArn # AWS_SNS_TOPIC
            badType == msg.type \in {None, ""} \/ msg.type \notin {"SubscriptionConfirmation", "Notification"}
        IN  /\ (response.kind = "error") <=> (badTopic \/ badType)
            /\ badTopic => response.message \in TopicErrors
            /\ (~badTopic /\ badType) => response.message \in TypeErrors
            /\ ~(badTopic \/ badType) => response = ReturnedNone

\* C12: validate_sns_header never raises, an envelope without a topic ARN
\* or without a type included: it returns a dictionary of error details
\* when it detects an error and None when it detects none.
C12_NeverRaises ==
    \A i \in EventsOf("validate_sns_header") :
        /\ events[i].result # "raised"
        /\ pc = "validated"
        /\ raised = None
        /\ response.kind \in {"error", "None"}

IsRelayAddress(a) ==
    LET bare == parseaddr(a)
    IN  /\ Contains(bare, "@")
        /\ \E d \in 1..Len(RELAY_DOMAINS) : SubSeq(bare, IndexOf(bare, "@") + 1, Len(bare)) = <<RELAY_DOMAINS[d]>>

\* The first recipient of a list that is in a relay domain, NoAddr if none.
RECURSIVE FirstRelayAddress(_)
FirstRelayAddress(list) ==
    IF list = <<>> THEN NoAddr
    ELSE IF IsRelayAddress(Head(list)) THEN Head(list)
    ELSE FirstRelayAddress(Tail(list))

\* A common header as a list, empty when the header is absent.
HeaderList(h) == IF h = Absent THEN <<>> ELSE h

\* C14: the resolver returns the first address of the common header "to"
\* whose domain is a relay domain; if there is none, the first such address
\* of "cc"; only if neither has one, the first such address of the
\* receipt's recipients; none when no list has one.  It never returns an
\* address whose domain is not a relay domain.
C14_FirstRelayAddressInOrder ==
    \A i \in EventsOf("resolve") :
        LET to == FirstRelayAddress(HeaderList(msg.to))
            cc == FirstRelayAddress(HeaderList(msg.cc))
            expected == IF to # NoAddr THEN parseaddr(to)
                        ELSE IF cc # NoAddr THEN parseaddr(cc)
                        ELSE FirstRelayAddress(msg.recipients)
        IN  /\ events[i].arg = expected
            /\ events[i].arg # NoAddr => IsRelayAddress(events[i].arg)
            /\ (to # NoAddr \/ cc # NoAddr) => "recipients" \notin seen

\* The raw message of the unit was fetched from the blob store.
Fetched == \E i \in EventsOf("s3_get") : events[i].result = "bytes"

SizeLimitError == Dict(400, "Attachments are larger than AWS allows")

\* C15 as stated: every raw message longer than 10485760 bytes, inline or
\* fetched from the blob store, ends in the size-limit error and never in
\* an outbound send; a message of at most 10485760 bytes does not end in
\* the size-limit error.
C15_Original ==
    ("size" \in seen) =>
        /\ (msg.size > MaxMessageBytes) => (pc \in {"cleanup", "done"} /\ response = SizeLimitError /\ Count("ses_send") = 0)
        /\ (msg.size <= MaxMessageBytes) => response # SizeLimitError

\* C15 as amended: a raw message fetched from the blob store ends in the
\* size-limit error, with no outbound send, when it is longer than 10485760
\* bytes, and does not when it has 10485760 bytes or fewer; inline content
\* of the notification is not checked for its size and never ends in the
\* size-limit error.
C15_SizeLimitOfFetchedContent ==
    ("size" \in seen) =>
        /\ (Fetched /\ msg.size > MaxMessageBytes) => (pc \in {"cleanup", "done"} /\ response = SizeLimitError /\ Count("ses_send") = 0)
        /\ (Fetched /\ msg.size <= MaxMessageBytes) => response # SizeLimitError
        /\ ~Fetched => (msg.content = "inline" /\ response # SizeLimitError)

\* A message of 10485761 bytes fetched from the blob store: rejected with
\* the size-limit error, nothing sent.
C15_Witness ==
    /\ pc = "done"
    /\ Fetched
    /\ msg.size = MaxMessageBytes + 1
    /\ response = SizeLimitError
    /\ Count("ses_send") = 0

\* An inline message of 10485761 bytes that was sent on.
C15_WitnessInline ==
    /\ msg.content = "inline"
    /\ msg.size = MaxMessageBytes + 1
    /\ \E i \in EventsOf("ses_send") : events[i].result = "MessageId"

\* The signing-certificate URL of the envelope is present and does not
\* start with https://sns.<region>.amazonaws.com/.
ForeignCertUrl ==
    /\ msg.certUrl # MissingKey
    /\ (Len(msg.certUrl) < 3 \/ SubSeq(msg.certUrl, 1, 3) # <<"https://sns.", AWS_REGION, ".amazonaws.com/">>)

\* C16: signature verification of an envelope whose signing-certificate URL
\* does not start with https://sns.<region>.amazonaws.com/ returns false,
\* and no network fetch has been issued.
C16_ForeignCertUrlNotFetched ==
    \A i \in EventsOf("verify_from_sns") :
        ForeignCertUrl =>
            /\ events[i].result = "False"
            /\ pc = "verified"
            /\ response = Bool(FALSE)
            /\ raised = None
            /\ Count("urlopen") = 0

\* Verification of an envelope whose certificate URL is on another host and
\* carries the expected origin in its query: false, nothing fetched.
C16_Witness ==
    /\ pc = "verified"
    /\ msg.certUrl = <<"https://evil.example/?u=", "https://sns.", AWS_REGION, ".amazonaws.com/", "cert.pem">>
    /\ response = Bool(FALSE)
    /\ events = <<Event("verify_from_sns", msg.certUrl, "False")>>

\* C17: signature verification of an envelope that has a signing-certificate
\* URL always ends by returning true or false; a failed fetch of the
\* certificate, a certificate that cannot be parsed, a malformed or
\* mismatching signature and a field missing from the canonical string all
\* yield false, and no error leaves verify_from_sns.
C17_AlwaysReturnsBool ==
    \A i \in EventsOf("verify_from_sns") :
        (msg.certUrl # MissingKey) =>
            /\ events[i].result \in {"True", "False"}
            /\ pc = "verified"
            /\ raised = None
            /\ response \in {Bool(TRUE), Bool(FALSE)}
            /\ (\E j \in EventsOf("urlopen") : events[j].result # "one_certificate") => response = Bool(FALSE)
            /\ (msg.signature # "wellformed" \/ msg.fields # "complete") => response = Bool(FALSE)

\* The message-id, from, reply-to and to header values of the inbound mail
\* at hand.
InboundHeaders ==
    [ message_id |-> <<"<", "inbound", "@", "example.com", ">">>,
      from |-> SenderAddr,
      reply_to |-> NoAddr,
      to |-> IF msg.to = Absent THEN NoAddr ELSE JoinAddrs(msg.to) ]

\* The records of the store for the outbound message id.
RecordsFor(id) == {r \in store : r.lookup = LookupOf(id)}

\* The unit is a reply whose In-Reply-To names the n-th outbound message,
\* for which the forward path stored a record.
RepliesTo(n) ==
    /\ loc.path = "reply"
    /\ "inReplyTo" \in seen
    /\ msg.inReplyTo = InReplyToOf(SesId(n))
    /\ RecordsFor(SesId(n)) # {}

AcceptedSends == {i \in EventsOf("ses_send") : events[i].result = "MessageId"}

Creations == {i \in EventsOf("reply_create") : events[i].result = "ok"}

\* The last redelivery of the unit in its log.
LastRedelivery == CHOOSE m \in EventsOf("redelivered") : \A k \in EventsOf("redelivered") : k <= m

\* C19: when the queue redelivers a unit whose outbound send had succeeded
\* and whose handling failed afterwards, the handler does nothing to
\* suppress the duplicate: a delivery that gets as far as the send issues
\* the send again, an accepted send has a message id of its own, and each
\* successful creation adds a record of its own to the store, so that a
\* second successful handling leaves a second send and a second record.
C19_RedeliveryDuplicates ==
    (EventsOf("redelivered") # {}) =>
        /\ \E i \in AcceptedSends : i < LastRedelivery
        /\ (loc.provider # None) => \E j \in EventsOf("ses_send") : j > LastRedelivery
        /\ (loc.provider = "MessageId") => \E j \in AcceptedSends : j > LastRedelivery
        /\ \A i, j \in AcceptedSends : i # j => events[i].arg # events[j].arg
        /\ \A i \in Creations : Cardinality(RecordsFor(events[i].arg[1])) = 1
        /\ Cardinality(UNION {RecordsFor(events[i].arg[1]) : i \in Creations}) = Cardinality(Creations)

\* A unit was forwarded, its record stored, and the worker was lost before
\* the cleanup; redelivered, it was forwarded again: two sends, two records.
C19_Witness ==
    /\ EventsOf("redelivered") # {}
    /\ pc = "done"
    /\ response.status_code = 200
    /\ events[LastRedelivery].result = "cleanup"
    /\ Cardinality(AcceptedSends) = 2
    /\ Cardinality(Creations) = 2
    /\ RecordsFor("ses1") # {}
    /\ RecordsFor("ses2") # {}
    /\ RecordsFor("ses1") # RecordsFor("ses2")

\* The directory was asked for the destination of the unit's alias and
\* returned none, or the request failed.
NoDestination == \E i \in EventsOf("directory_destination") : events[i].result \in {"nokey", "ConnectionError"}

C21_RecordOnlyAfterSend ==
    /\ [][ /\ \A r \in store : r \in store'
           /\ store' # store =>
                /\ Cardinality(store') = Cardinality(store) + 1
                /\ \A n \in store' \ store : \A r \in store : r.lookup # n.lookup
                /\ Len(events') = Len(events) + 2
                /\ events'[Len(events') - 1].op = "ses_send"
                /\ events'[Len(events') - 1].result = "MessageId"
                /\ events'[Len(events')].op = "reply_create"
                /\ events'[Len(events')].result = "ok"
                /\ events'[Len(events')].arg = events'[Len(events') - 1].arg
                /\ \A n \in store' \ store : n.lookup = LookupOf(events'[Len(events')].arg[1])
         ]_vars
    /\ [](\A i \in EventsOf("reply_create") :
            /\ i > 1
            /\ events[i - 1].op = "ses_send"
            /\ events[i - 1].result = "MessageId"
            /\ events[i - 1].arg = events[i].arg)

\* A handling whose send the provider refused: the result is a server
\* error, no record creation was issued and the store is the initial one.
C21_Witness ==
    /\ pc = "done"
    /\ units = 1
    /\ \E i \in EventsOf("ses_send") : events[i].result = "ClientError"
    /\ Count("reply_create") = 0
    /\ store = InitStore
    /\ response.status_code = 503

\* C22: after a successful outbound send, on the forward path and on the
\* reply path, handling ends with a result whose status is below 500 and
\* with the delete of the backing blob: a relayed unit is never left with
\* its blob in place.
C22_SentThenDeleted ==
    (Over /\ \E i \in EventsOf("ses_send") : events[i].result = "MessageId") =>
        /\ pc = "done"
        /\ response.kind = "dict"
        /\ response.status_code < 500
        /\ LastEvent = Event("s3_delete", get_bucket_and_key_from_s3_json(msg.receipt, msg.action), "deleted")
        /\ get_bucket_and_key_from_s3_json(msg.receipt, msg.action) \notin s3

\* The calls of the unit on the blob store.
BlobCalls == EventsOf("s3_get") \cup EventsOf("s3_delete")

\* C23: when the body carries inline content, content extraction uses it
\* and issues no blob get; a blob get is issued only when the inline
\* content is absent, at most once; and the bucket and the key of a call on
\* the blob store are those of the receipt's action exactly when the
\* receipt has an action whose type contains "S3", and are None otherwise.
C23_InlineContentFirst ==
    /\ ("content" \in seen /\ msg.content = "inline") =>
           /\ Count("s3_get") = 0
           /\ loc.size \in {0, msg.size}
           /\ (pc \in {"forward_send", "reply_send"}) => loc.size = msg.size
    /\ (Count("s3_get") > 0) =>
           /\ "content" \in seen
           /\ msg.content = "absent"
           /\ Count("s3_get") = 1
    /\ \A i \in BlobCalls :
           /\ (msg.receipt /\ msg.action = "S3") => events[i].arg = <<BucketName, ObjectKey>>
           /\ ~(msg.receipt /\ msg.action = "S3") => events[i].arg = <<None, None>>

\* A mail with inline content and a receipt with an S3 action, forwarded:
\* no blob get was issued, and the cleanup's delete names the action's
\* bucket and key.
C23_Witness ==
    /\ pc = "done"
    /\ msg.content = "inline"
    /\ msg.action = "S3"
    /\ response.status_code = 200
    /\ Count("s3_get") = 0
    /\ LastEvent = Event("s3_delete", <<BucketName, ObjectKey>>, "deleted")

\* A mail without inline content whose receipt has an action of another
\* type: the blob get was issued without bucket and key.
C23_WitnessOtherAction ==
    /\ msg.content = "absent"
    /\ msg.action = "SNS"
    /\ \E i \in EventsOf("s3_get") : events[i].arg = <<None, None>>

\* The gates of the reply path that the unit has passed.
HeaderFound == "inReplyTo" \in seen /\ msg.inReplyTo # <<None>>

RecordRead == \E i \in EventsOf("reply_read") : events[i].result = "record"

Decrypted == loc.metadata # NoMetadata

Authorized == \E i \in EventsOf("directory_plan") : events[i].result = "premium"

\* Content extraction has run, and the send has been entered.
Extracted == "content" \in seen

SendEntered == loc.provider # None

\* C24: the reply path runs its gates in the order In-Reply-To header,
\* reply-record read, metadata decryption, premium authorization, content
\* fetch, send, and stops at the first that fails.  No reply-record read
\* happens without an In-Reply-To header, and no content fetch and no send
\* happens unless the record read, the decryption and the authorization
\* all succeeded.
C24_ReplyGatesInOrder ==
    (loc.path = "reply") =>
        /\ (Count("reply_read") > 0) => (HeaderFound /\ Count("reply_read") = 1)
        /\ Decrypted => RecordRead
        /\ (Count("directory_plan") > 0) => Decrypted
        /\ Extracted => (HeaderFound /\ RecordRead /\ Decrypted /\ Authorized)
        /\ (Count("s3_get") > 0) => Extracted
        /\ SendEntered => Extracted
        /\ (Count("ses_send") > 0) => SendEntered
        /\ \A i \in EventsOf("reply_read") : \A j \in EventsOf("directory_plan") : i < j
        /\ \A j \in EventsOf("directory_plan") : \A k \in EventsOf("s3_get") : j < k
        /\ \A k \in EventsOf("s3_get") : \A l \in EventsOf("ses_send") : k < l
        /\ ("inReplyTo" \in seen /\ ~HeaderFound) =>
               (pc \in {"cleanup", "done"} /\ response = Dict(400, "No In-Reply-To header") /\ Count("reply_read") = 0)
        /\ (Count("reply_read") > 0 /\ ~RecordRead) =>
               (pc \in {"cleanup", "done"} /\ response = Dict(400, "Unknown or stale In-Reply-To header") /\ Count("directory_plan") = 0)
        /\ (raised = "DecryptionError") => (pc = "raised" /\ RecordRead /\ Count("directory_plan") = 0)
        /\ (Count("directory_plan") > 0 /\ pc # "reply_allowed" /\ ~Authorized) =>
               (pc \in {"cleanup", "done"} /\ response = Dict(403, "Relay replies require a premium account"))
        /\ (~HeaderFound \/ ~RecordRead \/ ~Decrypted \/ ~Authorized) =>
               (~Extracted /\ Count("s3_get") = 0 /\ ~SendEntered /\ Count("ses_send") = 0)

\* A reply that passed every gate, fetched its content from the blob store
\* and entered the send.
C24_Witness ==
    /\ loc.path = "reply"
    /\ HeaderFound
    /\ RecordRead
    /\ Decrypted
    /\ Authorized
    /\ \E k \in EventsOf("s3_get") : events[k].result = "bytes"
    /\ SendEntered
    /\ pc = "raised"

====
